---- MODULE Spec2Model ----
(***************************************************************************)
(* Model of the supervisor loop of source/agent/test_case_simple_agent.py: *)
(* the LangGraph with the nodes supervisor, test_case_generation_agent,    *)
(* test_case_review_agent and test_case_generator, the AgentState they     *)
(* share, and the two tools save_test_cases / get_test_cases.              *)
(*                                                                         *)
(* The LLM is the environment: each node action draws what the agent call  *)
(* returned (or that it raised) from a small set of outcomes.              *)
(***************************************************************************)
EXTENDS Integers, Sequences, FiniteSets, TLC

(* ------------------------------ bounds -------------------------------- *)

\* the history counters genCount / exportCount saturate at this value
MaxGen == 4
\* the model keeps the last MaxMsgs chat messages of state["messages"]
MaxMsgs == 2

(* ------------------------- program constants -------------------------- *)

\* review_data["is_passed"] = review_data["score"] >= 80
Threshold == 80
\* elif iteration_count < 3
MaxIterations == 3
\* "score": 60 of the default review result
DefaultScore == 60

(* ----------------------------- dict helpers --------------------------- *)

\* Python's None
None == [None |-> TRUE]

\* d.get(k, default) on a dict modelled as a record / function
Get(d, k, default) == IF k \in DOMAIN d THEN d[k] ELSE default

\* d[k] = v on a dict: the key is added when missing
Put(d, k, v) == [x \in (DOMAIN d) \cup {k} |-> IF x = k THEN v ELSE d[x]]

\* the empty dict {}
EmptyDict == [x \in {} |-> 0]

\* a JSON list is carried as a dict-like value with the single key "list"
JsonList(seq) == [list |-> seq]
IsDict(v) == "list" \notin DOMAIN v

Min(a, b) == IF a < b THEN a ELSE b

(* ----------------------------- node names ----------------------------- *)

GEN == "test_case_generation_agent"
REVIEW == "test_case_review_agent"
EXPORT == "test_case_generator"
SUPERVISOR == "supervisor"
END == "END"

VARIABLES
    pc,                       \* the graph node that runs next (or END)
    messages,                 \* state["messages"], kinds of the last MaxMsgs
    test_cases,               \* state["test_cases"]
    review_result,            \* state["review_result"]
    iteration_count,          \* state["iteration_count"]
    current_agent,            \* state["current_agent"]
    optimization_suggestions, \* state["optimization_suggestions"]
    final_output,             \* state["final_output"]
    lastNode,                 \* history: the agent/export node that ran last
    genCount,                 \* history: generation steps executed
    exportCount,              \* history: export steps executed
    lastReview,               \* history: outcome of the last review LLM call
    entry,                    \* how the run was started
    original_requirement,     \* state["original_requirement"] ("" if absent)
    prompt_requirement,       \* history: requirement text of the last
                              \* generation prompt
    lastGen                   \* history: outcome of the last generation call

\* state of the other components, each run under its own specification
VARIABLES
    conc,                     \* two conversations sharing _global_state
    sql,                      \* the SQL tools and the database they reach
    dl,                       \* the download endpoint
    threads,                  \* /invoke and /history over thread ids
    sse,                      \* one /stream response
    excel,                    \* generate_excel_from_test_cases
    word,                     \* Word payload parsing and its temp files
    gstate,                    \* _global_state under the two tools
    cli,                      \* the SQL agent's command-line flow
    wrapper                   \* FileMessageConverterLLM and its base model

loopVars == <<pc, messages, test_cases, review_result, iteration_count,
              current_agent, optimization_suggestions, final_output,
              lastNode, genCount, exportCount, lastReview,
              entry, original_requirement, prompt_requirement, lastGen>>

auxVars == <<conc, sql, dl, threads, sse, excel, word, gstate, cli,
             wrapper>>

vars == <<loopVars, auxVars>>

\* a component that does not take part in the specification being run
Idle == [idle |-> TRUE]

\* state["messages"].append(m), keeping the last MaxMsgs entries
AppendMsg(ms, m) ==
    IF Len(ms) < MaxMsgs THEN Append(ms, m) ELSE Append(Tail(ms), m)

(* --------------------------- test cases ------------------------------- *)

\* A test case as the model sees it: the generation attempt that produced
\* it, where it came from, whether the JSON value is an object, and its id.
TestCase(attempt, origin, isDict, id) ==
    [attempt |-> attempt, origin |-> origin, is_dict |-> isDict,
     test_case_id |-> id]

\* the placeholder test case of lines 217-225 / 236-244
DefaultTestCase(attempt) == TestCase(attempt, "default", TRUE, "TC_001")

\* what the final message of the generation agent contains
GenContents == {"no_array", "invalid_json", "empty_array", "array",
                "nondict_array"}
\* the save_test_cases call the generation agent made (at most one)
GenToolCalls == {"none", "invalid_json", "empty_list", "list", "dict",
                 "scalar"}

\* save_test_cases: the new state["test_cases"]. The global state is the
\* node's own state dict (set_global_state(state) keeps the reference), so
\* the tool writes the node's state; a json.loads error leaves it alone; a
\* JSON array is stored as it is, an object or a scalar as a one-element list
save_test_cases(tcs, call, attempt) ==
    CASE call \in {"none", "invalid_json"} -> tcs
      [] call = "empty_list" -> <<>>
      [] call = "list"   -> <<TestCase(attempt, "tool", TRUE, "LLM")>>
      [] call = "dict"   -> <<TestCase(attempt, "tool", TRUE, "LLM")>>
      [] call = "scalar" -> <<TestCase(attempt, "tool", FALSE, "none")>>

\* Python's "tcs is None", which no list satisfies
IsNoneTestCases(tcs) == FALSE

\* Python's "not test_cases" (lines 215, 235, 262, 371)
NotTestCases(tcs) == tcs = <<>>

\* get_test_cases: json.dumps of state.get("test_cases", [])
get_test_cases(tcs) == tcs

\* lines 199-207: the JSON array of the content, ids filled in by setdefault;
\* the assignment is skipped when nothing matches or anything raises
ParseContent(tcs, content, attempt) ==
    CASE content = "empty_array" -> <<>>
      [] content = "array" ->
            <<TestCase(attempt, "content", TRUE, "LLM"),
              TestCase(attempt, "content", TRUE, "TC_002")>>
      [] OTHER -> tcs

(* ---------------------------------------------------------------------- *)

\* the requirement text the client supplies
UserRequirement == "requirement"

\* the ways a run is started: handle_input (used by /invoke and /stream) and
\* test_simple_agent.py put only the user's message in the state;
\* run_test_case_generation fills every field
Entries == {"handle_input", "run_test_case_generation"}

\* state.get("original_requirement", "") of the initial state
InitialRequirement(e) ==
    IF e = "run_test_case_generation" THEN UserRequirement ELSE ""

\* the fresh state of a run started through e; the fields handle_input
\* leaves out read as their state.get defaults
LoopInit(e) ==
    /\ pc = SUPERVISOR
    /\ messages = <<"human">>
    /\ test_cases = <<>>
    /\ review_result = None
    /\ iteration_count = 0
    /\ current_agent = ""
    /\ optimization_suggestions = <<>>
    /\ final_output = ""
    /\ lastNode = ""
    /\ genCount = 0
    /\ exportCount = 0
    /\ lastReview = "none"
    /\ entry = e
    /\ original_requirement = InitialRequirement(e)
    /\ prompt_requirement = "none"
    /\ lastGen = "none"

AuxIdle ==
    /\ conc = Idle
    /\ sql = Idle
    /\ dl = Idle
    /\ threads = Idle
    /\ sse = Idle
    /\ excel = Idle
    /\ word = Idle
    /\ gstate = Idle
    /\ cli = Idle
    /\ wrapper = Idle

Init == (\E e \in Entries : LoopInit(e)) /\ AuxIdle

(* ------------------------------ supervisor ---------------------------- *)

\* supervisor_router with "iteration_count <= 3" for "iteration_count < 3"
supervisor_router_le(cur, iter, rr) ==
    IF cur = "" THEN GEN
    ELSE IF cur = GEN THEN REVIEW
    ELSE IF cur = REVIEW THEN
        IF rr # None /\ Get(rr, "is_passed", FALSE) THEN EXPORT
        ELSE IF iter <= MaxIterations THEN GEN
        ELSE EXPORT
    ELSE IF cur = EXPORT THEN "end"
    ELSE "end"

\* supervisor_router: the name of the next node, or "end"
supervisor_router(cur, iter, rr) ==
    IF cur = "" THEN GEN
    ELSE IF cur = GEN THEN REVIEW
    ELSE IF cur = REVIEW THEN
        IF rr # None /\ Get(rr, "is_passed", FALSE) THEN EXPORT
        ELSE IF iter < MaxIterations THEN GEN
        ELSE EXPORT
    ELSE IF cur = EXPORT THEN "end"
    ELSE "end"

\* the conditional edges of the supervisor node
Supervisor ==
    /\ pc = SUPERVISOR
    /\ LET next == supervisor_router(current_agent, iteration_count,
                                     review_result)
       IN pc' = IF next = "end" THEN END ELSE next
    /\ UNCHANGED <<messages, test_cases, review_result, iteration_count,
                   current_agent, optimization_suggestions, final_output,
                   lastNode, genCount, exportCount, lastReview,
                   entry, original_requirement, prompt_requirement, lastGen,
                   auxVars>>

(* ------------------------------ generation ---------------------------- *)

\* line 188: the requirement text the generation prompt is built around
GenerationPrompt(requirement) == requirement

\* test_case_generation_agent_node; raises: agent.invoke raised (after the
\* tool call, if any, had run)
Generation(content, call, raises) ==
    /\ pc = GEN
    /\ LET attempt == Min(genCount + 1, MaxGen)
           saved   == save_test_cases(test_cases, call, attempt)
           parsed  == IF raises THEN saved
                      ELSE ParseContent(saved, content, attempt)
           ensured == IF NotTestCases(parsed)
                      THEN <<DefaultTestCase(attempt)>>
                      ELSE parsed
       IN /\ test_cases' = ensured
          /\ genCount' = attempt
          /\ messages' = AppendMsg(messages,
                            IF raises THEN "generation_failed"
                            ELSE "generation_done")
          /\ optimization_suggestions' =
                IF raises THEN optimization_suggestions ELSE <<>>
    /\ current_agent' = GEN
    /\ lastNode' = GEN
    /\ lastGen' = IF raises THEN "raised" ELSE "returned"
    /\ prompt_requirement' = GenerationPrompt(original_requirement)
    /\ pc' = SUPERVISOR
    /\ UNCHANGED <<review_result, iteration_count, final_output,
                   exportCount, lastReview, entry, original_requirement,
                   auxVars>>

(* -------------------------------- review ------------------------------ *)

\* sub-scores the review agent reports, as (coverage, executability, clarity)
ScoreVals == {79, 81}
Triples == {<<79, 79, 79>>, <<79, 79, 81>>, <<79, 81, 81>>, <<81, 81, 81>>}
SuggestionLists == {<<>>, <<"s1">>}

\* a review in the format the system prompt asks for (lines 140-147)
PromptDict(score, t, sg) ==
    [score |-> score, coverage_score |-> t[1], executability_score |-> t[2],
     clarity_score |-> t[3], suggestions |-> sg]

PromptDicts ==
    LET base == {PromptDict(s, t, sg) :
                    s \in ScoreVals, t \in Triples, sg \in SuggestionLists}
    IN base \cup {Put(d, "is_passed", p) : d \in base, p \in BOOLEAN}

\* the "scores" value of a review in the other format (lines 288-295)
ScoresValues ==
    {[coverage |-> t[1], executability |-> t[2], clarity |-> t[3]] :
        t \in Triples}
    \cup {[executability |-> 81, clarity |-> 81], JsonList(<<79, 81>>)}

\* entries of "optimization_suggestions" (lines 300-308): a string, a dict
\* with "suggestion", a dict with "suggestions", a dict with neither
OptStr(s) == [type |-> "str", str |-> s]
OptDict(d) == [type |-> "dict", dict |-> d]
OptSuggestionLists ==
    {<<OptStr("s1"), OptDict([suggestion |-> "s2"])>>,
     <<OptDict([suggestions |-> <<"s3", "s4">>]), OptDict([note |-> "n"])>>}

\* a review without "score": any of scores / total_score /
\* optimization_suggestions may be present
AltDicts ==
    LET withScores == {EmptyDict} \cup {Put(EmptyDict, "scores", sc) :
                                            sc \in ScoresValues}
        withTotal  == withScores \cup {Put(d, "total_score", tot) :
                                            d \in withScores, tot \in {0, 81}}
    IN withTotal \cup {Put(d, "optimization_suggestions", os) :
                            d \in withTotal, os \in OptSuggestionLists}

\* what agent.invoke of the review agent did
ReviewOutputs ==
    {[kind |-> k] : k \in {"raise", "no_json", "invalid_json"}}
    \cup {[kind |-> "json", data |-> d] : d \in PromptDicts \cup AltDicts}

\* lines 299-309
RECURSIVE ExtractSuggestions(_)
ExtractSuggestions(opts) ==
    IF opts = <<>> THEN <<>>
    ELSE LET opt  == Head(opts)
             rest == ExtractSuggestions(Tail(opts))
         IN IF opt.type = "dict"
            THEN IF "suggestion" \in DOMAIN opt.dict
                 THEN <<opt.dict.suggestion>> \o rest
                 ELSE IF "suggestions" \in DOMAIN opt.dict
                      THEN opt.dict.suggestions \o rest
                      ELSE rest
            ELSE IF opt.type = "str" THEN <<opt.str>> \o rest
            ELSE rest

\* int(total) for total = sum / 3, sum >= 0
IntOfMean(sum) == sum \div 3

\* lines 288-309: scores.get raises when "scores" is not a dict
RebuildRaises(rd) == ~IsDict(Get(rd, "scores", EmptyDict))

\* lines 288-309: the fields filled in when "score" is missing
Rebuild(rd) ==
    LET scores == Get(rd, "scores", EmptyDict)
        given  == Get(rd, "total_score", 0)
        cov    == Get(scores, "coverage", 0)
        exe    == Get(scores, "executability", 0)
        cla    == Get(scores, "clarity", 0)
        score  == IF given = 0 /\ DOMAIN scores # {}
                  THEN IntOfMean(cov + exe + cla)
                  ELSE given
        r1 == Put(rd, "score", score)
        r2 == Put(r1, "coverage_score", cov)
        r3 == Put(r2, "executability_score", exe)
        r4 == Put(r3, "clarity_score", cla)
        r5 == Put(r4, "is_passed", score >= Threshold)
    IN Put(r5, "suggestions",
           ExtractSuggestions(Get(rd, "optimization_suggestions", <<>>)))

\* a default review result that counts as passed
DefaultReviewPassed(sg) ==
    [score |-> DefaultScore, coverage_score |-> DefaultScore,
     executability_score |-> DefaultScore, clarity_score |-> DefaultScore,
     suggestions |-> <<sg>>, is_passed |-> TRUE]

\* the default review result of lines 321-328, 332-339 and 349-356
DefaultReview(sg) ==
    [score |-> DefaultScore, coverage_score |-> DefaultScore,
     executability_score |-> DefaultScore, clarity_score |-> DefaultScore,
     suggestions |-> <<sg>>, is_passed |-> FALSE]

\* a review agent that is also given save_test_cases
ReviewToolsWithSave == {"get_test_cases", "save_test_cases"}

\* tools=[get_test_cases] of create_test_case_review_agent (line 130)
ReviewTools == {"get_test_cases"}

\* the tool calls the review agent can make before it answers
ReviewToolCalls ==
    {"none"}
    \cup (IF "get_test_cases" \in ReviewTools
          THEN {"get_test_cases"} ELSE {})
    \cup (IF "save_test_cases" \in ReviewTools
          THEN GenToolCalls \ {"none"} ELSE {})

\* state["test_cases"] after a tool call of the review agent: get_test_cases
\* reads the global state (set to the node's state at line 256)
ReviewToolCall(tcs, call, attempt) ==
    IF call \in {"none", "get_test_cases"} THEN tcs
    ELSE save_test_cases(tcs, call, attempt)

\* history: what the review agent's answer was; a JSON object is told
\* apart by the keys the node looks at (lines 287, 314)
ReviewKind(out) ==
    IF out.kind # "json" THEN out.kind
    ELSE IF "is_passed" \in DOMAIN out.data THEN "json"
    ELSE IF "score" \in DOMAIN out.data THEN "json_without_is_passed"
    ELSE "json_without_score"

\* test_case_review_agent_node
Review(out) ==
    /\ pc = REVIEW
    /\ pc' = SUPERVISOR
    /\ lastNode' = REVIEW
    /\ IF NotTestCases(test_cases)
       THEN /\ messages' = AppendMsg(messages, "review_no_test_cases")
            /\ lastReview' = "skipped"
            /\ UNCHANGED <<review_result, iteration_count, current_agent,
                           optimization_suggestions>>
       ELSE
         /\ current_agent' = REVIEW
         /\ lastReview' = ReviewKind(out)
         /\ CASE out.kind = "raise" ->
                   /\ review_result' = DefaultReview("review_error_exception")
                   /\ messages' = AppendMsg(messages, "review_failed")
                   /\ UNCHANGED <<iteration_count, optimization_suggestions>>
              [] out.kind = "no_json" ->
                   /\ review_result' =
                        IF review_result = None
                        THEN DefaultReview("review_error")
                        ELSE review_result
                   /\ messages' = AppendMsg(messages, "review_done")
                   /\ UNCHANGED <<iteration_count, optimization_suggestions>>
              [] out.kind = "invalid_json"
                 \/ (out.kind = "json" /\ "score" \notin DOMAIN out.data
                        /\ RebuildRaises(out.data)) ->
                   /\ review_result' = DefaultReview("review_error")
                   /\ messages' = AppendMsg(messages, "review_done")
                   /\ UNCHANGED <<iteration_count, optimization_suggestions>>
              [] OTHER ->
                   LET review_data == IF "score" \notin DOMAIN out.data
                                      THEN Rebuild(out.data)
                                      ELSE out.data
                   IN /\ review_result' = review_data
                      /\ messages' = AppendMsg(messages, "review_done")
                      /\ IF ~Get(review_data, "is_passed", FALSE)
                         THEN /\ optimization_suggestions' =
                                    Get(review_data, "suggestions", <<>>)
                              /\ iteration_count' = iteration_count + 1
                         ELSE UNCHANGED <<iteration_count,
                                          optimization_suggestions>>
    /\ test_cases' \in
           IF NotTestCases(test_cases) THEN {test_cases}
           ELSE {ReviewToolCall(test_cases, call, genCount) :
                    call \in ReviewToolCalls}
    /\ UNCHANGED <<final_output, genCount, exportCount,
                   entry, original_requirement, prompt_requirement, lastGen,
                   auxVars>>

(* -------------------------------- export ------------------------------ *)

\* lines 375-429 raise when a stored test case is not a JSON object (tc.get)
ExportRaises(tcs) == \E i \in 1..Len(tcs) : ~tcs[i].is_dict

\* an edge from test_case_generator back to the supervisor
ExportEdgeToSupervisor == SUPERVISOR

\* workflow.add_edge("test_case_generator", END)
ExportEdge == END

\* test_case_generator_node
Export ==
    /\ pc = EXPORT
    /\ pc' = ExportEdge
    /\ lastNode' = EXPORT
    /\ exportCount' = Min(exportCount + 1, MaxGen)
    /\ IF NotTestCases(test_cases)
       THEN /\ messages' = AppendMsg(messages, "export_no_test_cases")
            /\ UNCHANGED <<final_output, current_agent>>
       ELSE IF ExportRaises(test_cases)
       THEN /\ messages' = AppendMsg(messages, "export_failed")
            /\ UNCHANGED <<final_output, current_agent>>
       ELSE /\ final_output' = "document"
            /\ current_agent' = EXPORT
            /\ messages' = AppendMsg(messages, "export_done")
    /\ UNCHANGED <<test_cases, review_result, iteration_count,
                   optimization_suggestions, genCount, lastReview,
                   entry, original_requirement, prompt_requirement, lastGen,
                   auxVars>>

(* ---------------------------------------------------------------------- *)

Next ==
    \/ Supervisor
    \/ \E content \in GenContents, call \in GenToolCalls, raises \in BOOLEAN :
          Generation(content, call, raises)
    \/ \E out \in ReviewOutputs : Review(out)
    \/ Export

Spec == Init /\ [][Next]_vars

(* The same graph with each LLM call answering from a few representative  *)
(* outcomes (every path through the two agent nodes is kept), run by a     *)
(* graph runner that executes the next node whenever there is one.         *)

LoopGenContents == {"no_array", "array"}
LoopGenToolCalls == {"none", "list"}
LoopReviewOutputs ==
    {[kind |-> k] : k \in {"raise", "no_json", "invalid_json"}}
    \cup {[kind |-> "json",
           data |-> Put(PromptDict(81, <<81, 81, 81>>, <<>>),
                        "is_passed", TRUE)],
          [kind |-> "json",
           data |-> Put(PromptDict(79, <<79, 79, 79>>, <<"s1">>),
                        "is_passed", FALSE)],
          [kind |-> "json",
           data |-> [scores |-> [coverage |-> 79, executability |-> 79,
                                 clarity |-> 81]]]}

LoopNext ==
    \/ Supervisor
    \/ \E content \in LoopGenContents, call \in LoopGenToolCalls,
          raises \in BOOLEAN :
          Generation(content, call, raises)
    \/ \E out \in LoopReviewOutputs : Review(out)
    \/ Export

FairSpec == Init /\ [][LoopNext]_vars /\ WF_vars(LoopNext)

(* ====================================================================== *)
(* Two conversations in one process.  The API runs the graph with          *)
(* agent.ainvoke / agent.astream, so the synchronous nodes of two requests *)
(* run on different threads and interleave; _global_state is one module    *)
(* level name shared by all of them.  Each conversation makes one          *)
(* generate / review / export pass (a retry repeats the same steps).       *)
(* ====================================================================== *)

Convs == {"A", "B"}

\* a test case produced for conversation c
ConvCase(c, origin) == [owner |-> c, origin |-> origin]

ConcToolCalls == {"none", "empty_list", "list"}
ConcContents == {"no_array", "array"}

\* _global_state refers to the state dict of one node invocation.  While
\* that node runs the dict is the owner's state (alive); once the node has
\* returned, the name still refers to the dict the node left behind.
GlobalRef(c) == [owner |-> c, alive |-> TRUE, tcs |-> <<>>]

\* get_global_state().get("test_cases", [])
GlobalTestCases(cn) ==
    IF cn.global.alive THEN cn.st[cn.global.owner].tcs ELSE cn.global.tcs

\* what get_test_cases returns to the agent of conversation c (lines 81-83)
ToolReads(cn, c) == GlobalTestCases(cn)

\* state = get_global_state(); state["test_cases"] = data (lines 59-66)
GlobalWrite(cn, data) ==
    IF cn.global.alive
    THEN [cn EXCEPT !.st[cn.global.owner].tcs = data]
    ELSE [cn EXCEPT !.global.tcs = data]

\* the node of conversation c returns: its dict is no longer its state
NodeReturns(cn, c) ==
    IF cn.global.owner = c /\ cn.global.alive
    THEN [cn EXCEPT !.global = [owner |-> c, alive |-> FALSE,
                                tcs |-> cn.st[c].tcs]]
    ELSE cn

\* lines 215-225 / 235-244
ConcEnsure(tcs, c) ==
    IF NotTestCases(tcs) THEN <<ConvCase(c, "default")>> ELSE tcs

ConcFrame == UNCHANGED <<loopVars, sql, dl, threads, sse, excel, word,
        gstate, cli, wrapper>>

\* set_global_state(state) at the start of a generation or review node
SetGlobalState(c) ==
    /\ conc.st[c].pc \in {"gen_enter", "review_enter"}
    /\ conc' = [conc EXCEPT
            !.global = GlobalRef(c),
            !.st[c].pc = IF conc.st[c].pc = "gen_enter"
                         THEN "gen_tool" ELSE "review_llm"]
    /\ ConcFrame

\* the generation agent of c calls save_test_cases (or makes no call)
ConcSave(c, call) ==
    /\ conc.st[c].pc = "gen_tool"
    /\ LET written == CASE call = "list" ->
                             GlobalWrite(conc, <<ConvCase(c, "tool")>>)
                        [] call = "empty_list" -> GlobalWrite(conc, <<>>)
                        [] OTHER -> conc
       IN conc' = [written EXCEPT !.st[c].pc = "gen_reply"]
    /\ ConcFrame

\* agent.invoke of the generation agent returns or raises (lines 189-207,
\* 232-246)
ConcReply(c, content, raises) ==
    /\ conc.st[c].pc = "gen_reply"
    /\ IF raises
       THEN LET kept == [conc EXCEPT
                    !.st[c].tcs = ConcEnsure(conc.st[c].tcs, c),
                    !.st[c].pc = "review_enter"]
            IN conc' = NodeReturns(kept, c)
       ELSE conc' = [conc EXCEPT
                    !.st[c].tcs = IF content = "array"
                                  THEN <<ConvCase(c, "content")>>
                                  ELSE @,
                    !.st[c].pc = "gen_sync"]
    /\ ConcFrame

\* lines 210-229: copy the global state's test cases when there are any,
\* fall back to the placeholder, return
ConcSync(c) ==
    /\ conc.st[c].pc = "gen_sync"
    /\ LET updated == ToolReads(conc, c)
           tcs1 == IF ~NotTestCases(updated) THEN updated
                   ELSE conc.st[c].tcs
           kept == [conc EXCEPT !.st[c].tcs = ConcEnsure(tcs1, c),
                                !.st[c].pc = "review_enter"]
       IN conc' = NodeReturns(kept, c)
    /\ ConcFrame

\* the review agent of c runs; usesTool: it called get_test_cases
ConcReview(c, usesTool) ==
    /\ conc.st[c].pc = "review_llm"
    /\ LET seen == IF usesTool THEN ToolReads(conc, c) ELSE conc.st[c].tcs
           kept == [conc EXCEPT !.st[c].seen = seen,
                                !.st[c].pc = "export"]
       IN conc' = NodeReturns(kept, c)
    /\ ConcFrame

\* test_case_generator_node of c
ConcExport(c) ==
    /\ conc.st[c].pc = "export"
    /\ conc' = [conc EXCEPT !.st[c].pc = "done",
                            !.st[c].exported = conc.st[c].tcs]
    /\ ConcFrame

ConcInit ==
    /\ LoopInit("handle_input")
    /\ gstate = Idle
    /\ cli = Idle
    /\ wrapper = Idle
    /\ conc = [global |-> [owner |-> "none", alive |-> FALSE, tcs |-> <<>>],
               st |-> [c \in Convs |->
                         [pc |-> "gen_enter", tcs |-> <<>>, seen |-> <<>>,
                          exported |-> <<>>]]]
    /\ sql = Idle
    /\ dl = Idle
    /\ threads = Idle
    /\ sse = Idle
    /\ excel = Idle
    /\ word = Idle

ConcNext ==
    \/ \E c \in Convs : SetGlobalState(c)
    \/ \E c \in Convs, call \in ConcToolCalls : ConcSave(c, call)
    \/ \E c \in Convs, content \in ConcContents, raises \in BOOLEAN :
          ConcReply(c, content, raises)
    \/ \E c \in Convs : ConcSync(c)
    \/ \E c \in Convs, usesTool \in BOOLEAN : ConcReview(c, usesTool)
    \/ \E c \in Convs : ConcExport(c)

ConcSpec == ConcInit /\ [][ConcNext]_vars


(* ====================================================================== *)
(* The SQL tools (tools/tool_sql_table_list.py) over                       *)
(* MySQLDatabaseManager (utils/db_utils.py).  A SQL text is a sequence of  *)
(* tokens; " " is white space.                                             *)
(* ====================================================================== *)

\* longest SQL text, in tokens
MaxSqlLen == 3

SqlTokens == {" ", "select", "SELECT", "x", "drop", "DELETE", "updated_at"}

RECURSIVE SeqsUpTo(_, _)
\* the sequences over S of length at most n
SeqsUpTo(S, n) ==
    IF n = 0 THEN {<<>>}
    ELSE LET shorter == SeqsUpTo(S, n - 1)
         IN shorter \cup {Append(q, x) : q \in shorter, x \in S}

SqlTexts == SeqsUpTo(SqlTokens, MaxSqlLen)

\* str.upper() of a token
Upper(tok) ==
    CASE tok = "select" -> "SELECT"
      [] tok = "x" -> "X"
      [] tok = "drop" -> "DROP"
      [] tok = "updated_at" -> "UPDATED_AT"
      [] OTHER -> tok

SqlUpper(text) == [i \in 1..Len(text) |-> Upper(text[i])]

RECURSIVE StripLeft(_)
StripLeft(text) ==
    IF text # <<>> /\ Head(text) = " " THEN StripLeft(Tail(text)) ELSE text

RECURSIVE StripRight(_)
StripRight(text) ==
    IF text # <<>> /\ text[Len(text)] = " "
    THEN StripRight(SubSeq(text, 1, Len(text) - 1))
    ELSE text

\* str.strip()
Strip(text) == StripRight(StripLeft(text))

\* sql_upper.startswith('SELECT')
StartsWithSelect(upper) == upper # <<>> /\ upper[1] = "SELECT"

\* the keywords that occur as substrings of an upper-cased token
KeywordsOf(tok) ==
    CASE tok = "DROP" -> {"DROP"}
      [] tok = "DELETE" -> {"DELETE"}
      [] tok = "UPDATED_AT" -> {"UPDATE"}
      [] OTHER -> {}

\* keyword in sql_upper
KeywordIn(keyword, upper) ==
    \E i \in 1..Len(upper) : keyword \in KeywordsOf(upper[i])

\* a denylist that misses DELETE
DangerousKeywordsWithoutDelete ==
    {"DROP", "UPDATE", "INSERT", "ALTER", "CREATE", "TRUNCATE"}

\* dangerous_keywords of validate_sql (line 111)
ValidateDangerousKeywords ==
    {"DROP", "DELETE", "UPDATE", "INSERT", "ALTER", "CREATE", "TRUNCATE"}

\* a denylist that misses DROP
DangerousKeywordsWithoutDrop ==
    {"DELETE", "UPDATE", "INSERT", "ALTER", "CREATE", "TRUNCATE"}

\* dangerous_keywords of execute_query (line 156)
ExecuteDangerousKeywords ==
    {"DROP", "DELETE", "UPDATE", "INSERT", "ALTER", "CREATE", "TRUNCATE"}

\* what the database does with a statement it is sent
DbOutcomes == {"rows", "no_rows", "error"}

\* MySQLDatabaseManager.execute_query: the result and the statements sent
execute_query(text, db) ==
    LET stripped == Strip(text)
        upper    == SqlUpper(stripped)
    IN IF text = <<>> \/ stripped = <<>>
       THEN [result |-> "error_empty", sent |-> <<>>]
       ELSE IF ~StartsWithSelect(upper)
       THEN [result |-> "error_not_select", sent |-> <<>>]
       ELSE IF \E k \in ExecuteDangerousKeywords : KeywordIn(k, upper)
       THEN [result |-> "error_dangerous", sent |-> <<>>]
       ELSE [result |-> CASE db = "rows" -> "executed"
                          [] db = "no_rows" -> "executed_empty"
                          [] OTHER -> "execute_failed",
             sent |-> <<stripped>>]

\* MySQLDatabaseManager.validate_sql: EXPLAIN is sent after the same checks
validate_sql(text, db) ==
    LET stripped == Strip(text)
        upper    == SqlUpper(stripped)
    IN IF text = <<>> \/ stripped = <<>>
       THEN [result |-> "error_empty", sent |-> <<>>]
       ELSE IF ~StartsWithSelect(upper)
       THEN [result |-> "error_not_select", sent |-> <<>>]
       ELSE IF \E k \in ValidateDangerousKeywords : KeywordIn(k, upper)
       THEN [result |-> "error_dangerous", sent |-> <<>>]
       ELSE [result |-> IF db = "error" THEN "validate_failed"
                        ELSE "validated",
             sent |-> <<<<"EXPLAIN", " ">> \o stripped>>]

SqlFrame == UNCHANGED <<loopVars, conc, dl, threads, sse, excel, word,
        gstate, cli, wrapper>>

\* SQLQueryTool._run
SqlQueryToolRun(db) ==
    /\ LET r == IF Len(sql.text) = 0
                THEN [result |-> "error_no_sql", sent |-> <<>>]
                ELSE execute_query(sql.text, db)
       IN sql' = [text |-> sql.text, tool |-> "sql_db_query",
                  result |-> r.result, sent |-> r.sent,
                  queried |-> r.result, checked |-> sql.checked]
    /\ SqlFrame

\* SQLQueryCheckerTool._run
SqlQueryCheckerToolRun(db) ==
    /\ LET r == IF Len(sql.text) = 0
                THEN [result |-> "error_no_sql", sent |-> <<>>]
                ELSE validate_sql(sql.text, db)
       IN sql' = [text |-> sql.text, tool |-> "sql_db_query_checker",
                  result |-> r.result, sent |-> r.sent,
                  queried |-> sql.queried, checked |-> r.result]
    /\ SqlFrame

SqlInit ==
    /\ LoopInit("handle_input")
    /\ gstate = Idle
    /\ cli = Idle
    /\ wrapper = Idle
    /\ sql \in {[text |-> t, tool |-> "none", result |-> "none",
                 sent |-> <<>>, queried |-> "none", checked |-> "none"] :
                 t \in SqlTexts}
    /\ conc = Idle
    /\ dl = Idle
    /\ threads = Idle
    /\ sse = Idle
    /\ excel = Idle
    /\ word = Idle

SqlNext ==
    \/ \E db \in DbOutcomes : SqlQueryToolRun(db)
    \/ \E db \in DbOutcomes : SqlQueryCheckerToolRun(db)

SqlSpec == SqlInit /\ [][SqlNext]_vars


(* ====================================================================== *)
(* GET /api/download/{filename:path} (api/main.py).  A file name is a      *)
(* sequence of tokens; "%2e" and "%2F" are percent-encoded "." and "/".    *)
(* ====================================================================== *)

\* longest requested file name, in tokens
MaxNameLen == 3

NameTokens ==
    {".", "%2e", "/", "%2F", "\\", "a.xlsx", "link.xlsx", "gone.xlsx"}

FileNames == SeqsUpTo(NameTokens, MaxNameLen)

\* what the symbolic link downloads/link.xlsx points to
LinkTargets == {"inside", "outside", "dangling"}

\* urllib.parse.unquote
unquote(name) ==
    [i \in 1..Len(name) |->
        CASE name[i] = "%2e" -> "."
          [] name[i] = "%2F" -> "/"
          [] OTHER -> name[i]]

\* ".." in decoded_filename
HasDotDot(decoded) ==
    \E i \in 1..(Len(decoded) - 1) : decoded[i] = "." /\ decoded[i + 1] = "."

\* the check of line 49
InvalidFilename(decoded) ==
    \/ HasDotDot(decoded)
    \/ \E i \in 1..Len(decoded) : decoded[i] \in {"/", "\\"}

\* file_path.exists() of DOWNLOADS_DIR / decoded, which follows links
Exists(decoded, link) ==
    \/ decoded \in {<<>>, <<".">>, <<"a.xlsx">>}
    \/ decoded = <<"link.xlsx">> /\ link # "dangling"

\* where file_path.resolve() lies
Resolved(decoded, link) ==
    IF decoded = <<"link.xlsx">> THEN link ELSE "inside"

\* the body of the try block: what it raises or returns
DownloadBody(name, link, fsError) ==
    LET decoded == unquote(name)
    IN IF InvalidFilename(decoded)
       THEN [kind |-> "HTTPException", status |-> 400,
             consulted |-> FALSE, served |-> "none"]
       ELSE IF fsError
       THEN [kind |-> "Exception", status |-> 0,
             consulted |-> TRUE, served |-> "none"]
       ELSE IF ~Exists(decoded, link)
       THEN [kind |-> "HTTPException", status |-> 404,
             consulted |-> TRUE, served |-> "none"]
       ELSE IF Resolved(decoded, link) # "inside"
       THEN [kind |-> "HTTPException", status |-> 400,
             consulted |-> TRUE, served |-> "none"]
       ELSE [kind |-> "FileResponse", status |-> 200,
             consulted |-> TRUE, served |-> Resolved(decoded, link)]

\* a single handler that catches every exception
ExceptAllAs500(out) ==
    IF out.kind = "FileResponse" THEN out.status ELSE 500

\* except HTTPException: raise / except Exception: 500
ExceptClauses(out) ==
    IF out.kind = "Exception" THEN 500 ELSE out.status

DlFrame == UNCHANGED <<loopVars, conc, sql, threads, sse, excel, word,
        gstate, cli, wrapper>>

\* download_file
DownloadFile ==
    /\ dl.status = 0
    /\ LET out == DownloadBody(dl.filename, dl.link, dl.fsError)
       IN dl' = [dl EXCEPT !.status = ExceptClauses(out),
                           !.consulted = out.consulted,
                           !.served = out.served]
    /\ DlFrame

DlInit ==
    /\ LoopInit("handle_input")
    /\ gstate = Idle
    /\ cli = Idle
    /\ wrapper = Idle
    /\ dl \in {[filename |-> n, link |-> l, fsError |-> e, status |-> 0,
                consulted |-> FALSE, served |-> "none"] :
                n \in FileNames, l \in LinkTargets, e \in BOOLEAN}
    /\ conc = Idle
    /\ sql = Idle
    /\ threads = Idle
    /\ sse = Idle
    /\ excel = Idle
    /\ word = Idle

DlNext == DownloadFile

DlSpec == DlInit /\ [][DlNext]_vars


(* ====================================================================== *)
(* Threads: /invoke, /stream and /history (api/routes.py) over the graph   *)
(* compiled by create_simple_agent_system.                                 *)
(* ====================================================================== *)

\* most requests sent on one thread
MaxTurns == 2

ThreadIds == {"T1", "T2"}

Contents == {"m1", "m2"}

\* workflow.compile() is given no checkpointer
Checkpointer == "none"

\* the messages one completed run adds: the human message and the reply
Exchange(content) ==
    <<[type |-> "human", content |-> content],
      [type |-> "ai", content |-> content]>>

\* agent.aget_state(config): the ValueError or the stored messages
aget_state(store, thread) ==
    IF Checkpointer = "none"
    THEN [raises |-> "No checkpointer set", messages |-> <<>>]
    ELSE [raises |-> "none", messages |-> store[thread]]

\* the messages the graph starts a run from: the checkpoint of the thread,
\* if there is one, and the input of handle_input
RunMessages(store, thread, content) ==
    (IF Checkpointer = "none" THEN <<>> ELSE store[thread])
        \o <<[type |-> "human", content |-> content]>>

\* the store after a run: a checkpoint is written only by a checkpointer
StoreAfterRun(store, thread, content) ==
    IF Checkpointer = "none" THEN store
    ELSE [store EXCEPT ![thread] = @ \o Exchange(content)]

ThreadFrame == UNCHANGED <<loopVars, conc, sql, dl, sse, excel, word,
        gstate, cli, wrapper>>

\* a completed request to the agent on a thread
AgentRequest(route, thread, content) ==
    /\ Len(threads.sent[thread]) < MaxTurns
    /\ threads' =
           [threads EXCEPT
               !.store = StoreAfterRun(threads.store, thread, content),
               !.sent = [@ EXCEPT ![thread] = Append(@, content)],
               !.run = [route |-> route, thread |-> thread,
                        messages |-> RunMessages(threads.store, thread,
                                                 content)]]
    /\ ThreadFrame

\* POST /invoke
InvokeRequest(thread, content) == AgentRequest("invoke", thread, content)

\* POST /stream
StreamRequest(thread, content) == AgentRequest("stream", thread, content)

\* POST /history
HistoryRequest(thread) ==
    /\ LET snapshot == aget_state(threads.store, thread)
       IN threads' =
              [threads EXCEPT
                  !.history =
                      [thread |-> thread,
                       status |-> IF snapshot.raises
                                       \in {"none", "No checkpointer set"}
                                  THEN 200 ELSE 500,
                       messages |-> snapshot.messages]]
    /\ ThreadFrame

ThreadInit ==
    /\ LoopInit("handle_input")
    /\ gstate = Idle
    /\ cli = Idle
    /\ wrapper = Idle
    /\ threads = [store |-> [t \in ThreadIds |-> <<>>],
                  sent |-> [t \in ThreadIds |-> <<>>],
                  run |-> [route |-> "none", thread |-> "none",
                           messages |-> <<>>],
                  history |-> [thread |-> "none", status |-> 0,
                               messages |-> <<>>]]
    /\ conc = Idle
    /\ sql = Idle
    /\ dl = Idle
    /\ sse = Idle
    /\ excel = Idle
    /\ word = Idle

ThreadNext ==
    \/ \E t \in ThreadIds, c \in Contents : InvokeRequest(t, c)
    \/ \E t \in ThreadIds, c \in Contents : StreamRequest(t, c)
    \/ \E t \in ThreadIds : HistoryRequest(t)

ThreadSpec == ThreadInit /\ [][ThreadNext]_vars


(* ====================================================================== *)
(* POST /stream: streaming_message_generator and handle_input              *)
(* (api/utils/message_utils.py).  The agent and its state are the          *)
(* environment.                                                            *)
(* ====================================================================== *)

\* most events taken from agent.astream in one response
MaxEvents == 2

\* a task of the thread's state: with pending interrupts, with an empty
\* interrupts tuple, or without the attribute
TaskLists ==
    {<<>>, <<"clear">>, <<"no_attr">>, <<"pending">>, <<"clear", "pending">>}

\* what agent.aget_state does in handle_input: a state with its tasks, or
\* an exception
AgetStateOutcomes ==
    {[raises |-> "none", tasks |-> ts] : ts \in TaskLists}
    \cup {[raises |-> r, tasks |-> <<>>] :
            r \in {"No checkpointer set", "ValueError", "Exception"}}

\* the request body: content, thread_id (optional) and resume
UserInputs ==
    {[content |-> "hello", thread_id |-> t, resume |-> "approve"] :
        t \in {"T1", "None"}}

NoInput == [kind |-> "none", resume |-> "none", messages |-> <<>>]

HumanMessage(content) == [type |-> "human", content |-> content]

\* the messages of an update: AIMessage, the re-sent input HumanMessage,
\* another HumanMessage, ToolMessage, and a type ChatMessage does not cover
MessageKinds == {"ai", "human_input", "human", "tool", "unsupported"}

\* the payloads of the "messages" stream mode
ChunkKinds == {"chunk", "chunk_empty", "chunk_none", "not_chunk"}

StreamItems ==
    {[mode |-> "updates", payload |-> ms] :
        ms \in SeqsUpTo(MessageKinds, 2)}
    \cup {[mode |-> "messages", payload |-> <<k>>] : k \in ChunkKinds}
    \cup {[mode |-> "not_tuple", payload |-> <<>>]}

\* before the first item of agent.astream
NoItem == [mode |-> "none", payload |-> <<>>]

DoneEvent == [type |-> "done", content |-> "[DONE]"]

ErrorEvent(content) == [type |-> "error", content |-> content]

\* handle_input that never looks for pending interrupts
handle_input_new_turn(outcome, user_input) ==
    [thread |-> IF user_input.thread_id = "None" THEN "uuid4"
                ELSE user_input.thread_id,
     input  |-> IF outcome.raises \in {"ValueError", "Exception"}
                THEN NoInput
                ELSE [kind |-> "messages", resume |-> "none",
                      messages |-> <<HumanMessage(user_input.content)>>],
     raises |-> outcome.raises \in {"ValueError", "Exception"}]

\* handle_input: the agent input, or the exception that leaves it
handle_input(outcome, user_input) ==
    LET thread_id == IF user_input.thread_id = "None" THEN "uuid4"
                     ELSE user_input.thread_id
        interrupted_tasks ==
            SelectSeq(outcome.tasks, LAMBDA task : task = "pending")
        new_turn == [kind |-> "messages", resume |-> "none",
                     messages |-> <<HumanMessage(user_input.content)>>]
    IN [thread |-> thread_id,
        input  |-> CASE outcome.raises = "none" ->
                          IF interrupted_tasks # <<>>
                          THEN [kind |-> "Command",
                                resume |-> user_input.resume,
                                messages |-> <<>>]
                          ELSE new_turn
                     [] outcome.raises = "No checkpointer set" -> new_turn
                     [] OTHER -> NoInput,
        raises |-> outcome.raises \in {"ValueError", "Exception"}]

RECURSIVE EmitMessagesUntilError(_)
\* the loop over new_messages leaving at the first conversion error
EmitMessagesUntilError(ms) ==
    IF ms = <<>> THEN <<>>
    ELSE LET first == Head(ms)
         IN CASE first = "unsupported" -> <<ErrorEvent("Unexpected error")>>
              [] first = "human_input" -> EmitMessagesUntilError(Tail(ms))
              [] OTHER -> <<[type |-> "message", content |-> first]>>
                              \o EmitMessagesUntilError(Tail(ms))

RECURSIVE EmitMessages(_)
\* the loop over new_messages (lines 157-173)
EmitMessages(ms) ==
    IF ms = <<>> THEN <<>>
    ELSE LET first == Head(ms)
             rest  == EmitMessages(Tail(ms))
         IN CASE first = "unsupported"
                     -> <<ErrorEvent("Unexpected error")>> \o rest
              [] first = "human_input" -> rest
              [] OTHER -> <<[type |-> "message", content |-> first]>> \o rest

\* the events one stream item yields
Emitted(item) ==
    CASE item.mode = "updates" -> EmitMessages(item.payload)
      [] item.mode = "messages" /\ item.payload = <<"chunk">>
             -> <<[type |-> "token", content |-> "chunk"]>>
      [] OTHER -> <<>>

SseFrame == UNCHANGED <<loopVars, conc, sql, dl, threads, excel, word,
        gstate, cli, wrapper>>

\* line 137: kwargs = await handle_input(user_input, agent), before the try
StreamHandleInput ==
    /\ sse.pc = "handle_input"
    /\ LET k == handle_input(sse.state, sse.user_input)
       IN sse' = [sse EXCEPT !.pc = IF k.raises THEN "raised" ELSE "astream",
                             !.input = k.input,
                             !.thread = k.thread]
    /\ SseFrame

\* one pass of the async for loop
StreamEvent(item) ==
    /\ sse.pc = "astream"
    /\ sse.n < MaxEvents
    /\ sse' = [sse EXCEPT !.out = @ \o Emitted(item), !.n = @ + 1,
                          !.last = item]
    /\ SseFrame

\* agent.astream raises: except Exception, then finally
StreamRaises ==
    /\ sse.pc = "astream"
    /\ sse' = [sse EXCEPT
                  !.out = @ \o <<ErrorEvent("Internal server error"),
                                 DoneEvent>>,
                  !.pc = "closed",
                  !.failed = TRUE]
    /\ SseFrame

\* agent.astream is exhausted: finally
StreamEnds ==
    /\ sse.pc = "astream"
    /\ sse' = [sse EXCEPT !.out = Append(@, DoneEvent), !.pc = "closed"]
    /\ SseFrame

StreamInit ==
    /\ LoopInit("handle_input")
    /\ gstate = Idle
    /\ cli = Idle
    /\ wrapper = Idle
    /\ sse \in {[pc |-> "handle_input", state |-> o, user_input |-> u,
                 thread |-> "none", input |-> NoInput, out |-> <<>>,
                 last |-> NoItem, n |-> 0, failed |-> FALSE] :
                 o \in AgetStateOutcomes, u \in UserInputs}
    /\ conc = Idle
    /\ sql = Idle
    /\ dl = Idle
    /\ threads = Idle
    /\ excel = Idle
    /\ word = Idle

StreamNext ==
    \/ StreamHandleInput
    \/ \E item \in StreamItems : StreamEvent(item)
    \/ StreamRaises
    \/ StreamEnds

StreamSpec == StreamInit /\ [][StreamNext]_vars


(* ====================================================================== *)
(* generate_excel_from_test_cases (tools/tool_excel_generator.py).  A JSON *)
(* text is named by what json.loads makes of it.                           *)
(* ====================================================================== *)

\* most elements of a test-case array
MaxCases == 2

\* test_cases_json: not JSON, an array of objects and scalars, an object,
\* a scalar, null
TestCasesJsons ==
    {[kind |-> "not_json", items |-> <<>>],
     [kind |-> "dict", items |-> <<>>],
     [kind |-> "scalar", items |-> <<>>],
     [kind |-> "null", items |-> <<>>]}
    \cup {[kind |-> "list", items |-> xs] :
             xs \in SeqsUpTo({"dict", "scalar"}, MaxCases)}

\* review_result_json: None, "", not JSON, an object, {}, an array, null
ReviewResultJsons ==
    {"None", "empty_string", "not_json", "dict", "empty_dict", "list", "null"}

\* what the file system does with mkdir and with wb.save
FsOutcomes == {"ok", "mkdir_fails", "save_fails"}

\* lines 48-52: the list the rows are written from, or the exception
LoadTestCases(tc) ==
    CASE tc.kind = "not_json" -> [raises |-> TRUE, cases |-> <<>>]
      [] tc.kind = "list" -> [raises |-> FALSE, cases |-> tc.items]
      [] tc.kind = "dict" -> [raises |-> FALSE, cases |-> <<"dict">>]
      [] OTHER -> [raises |-> FALSE, cases |-> <<"scalar">>]

\* lines 58-63: json.loads under a bare except
LoadReviewResult(rj) ==
    CASE rj \in {"None", "empty_string", "not_json", "null"} -> "None"
      [] OTHER -> rj

\* the body of the try block of generate_excel_from_test_cases
ExcelBody(tc, rj, path, fs) ==
    LET loaded == LoadTestCases(tc)
        review == LoadReviewResult(rj)
        failed(dirs) == [kind |-> "raise", result |-> "exception",
                         mkdir |-> dirs, files |-> {}, sheets |-> {}]
    IN IF loaded.raises THEN failed(FALSE)
       ELSE IF loaded.cases = <<>>
       THEN [kind |-> "return", result |-> "error_empty",
             mkdir |-> FALSE, files |-> {}, sheets |-> {}]
       ELSE IF fs = "mkdir_fails" THEN failed(FALSE)
       ELSE IF \E i \in 1..Len(loaded.cases) : loaded.cases[i] # "dict"
       THEN failed(TRUE)
       ELSE IF review = "list" THEN failed(TRUE)
       ELSE IF fs = "save_fails" THEN failed(TRUE)
       ELSE [kind |-> "return", result |-> "success",
             mkdir |-> TRUE, files |-> {path},
             sheets |-> IF review = "dict"
                        THEN {"test_cases", "review"}
                        ELSE {"test_cases"}]

\* a function body without the except clause
NoExcept(out) == out

\* lines 217-220: except Exception returns the error message
ExceptException(out) ==
    IF out.kind = "raise"
    THEN [out EXCEPT !.kind = "return", !.result = "error_failed"]
    ELSE out

ExcelFrame == UNCHANGED <<loopVars, conc, sql, dl, threads, sse, word,
        gstate, cli, wrapper>>

\* generate_excel_from_test_cases
GenerateExcel ==
    /\ excel.pc = "called"
    /\ LET out == ExceptException(ExcelBody(excel.test_cases_json,
                                            excel.review_result_json,
                                            excel.output_path, excel.fs))
       IN excel' = [excel EXCEPT !.pc = "returned",
                                 !.raised = (out.kind = "raise"),
                                 !.result = out.result,
                                 !.mkdir = out.mkdir,
                                 !.files = out.files,
                                 !.sheets = out.sheets]
    /\ ExcelFrame

ExcelInit ==
    /\ LoopInit("handle_input")
    /\ gstate = Idle
    /\ cli = Idle
    /\ wrapper = Idle
    /\ excel \in {[pc |-> "called", test_cases_json |-> tc,
                   review_result_json |-> rj, output_path |-> path,
                   fs |-> fs, raised |-> FALSE, result |-> "none",
                   mkdir |-> FALSE, files |-> {}, sheets |-> {}] :
                   tc \in TestCasesJsons, rj \in ReviewResultJsons,
                   path \in {"downloads_default", "given"},
                   fs \in FsOutcomes}
    /\ conc = Idle
    /\ sql = Idle
    /\ dl = Idle
    /\ threads = Idle
    /\ sse = Idle
    /\ word = Idle

ExcelNext == GenerateExcel

ExcelSpec == ExcelInit /\ [][ExcelNext]_vars


(* ====================================================================== *)
(* Word payloads: parse_word_document (tools/tool_word_parser.py) and      *)
(* convert_file_messages_to_text (utils/message_converter.py).  tmp is the *)
(* set of temporary files that exist.                                      *)
(* ====================================================================== *)

\* most content blocks of a message
MaxBlocks == 2

\* base64_data: None, not base64, a .docx document, bytes that are no document
Base64Datas == {"None", "bad_base64", "docx", "not_docx"}

\* file_path: empty, a missing file, a document, a text file, a damaged file
FilePaths == {"", "missing.docx", "a.docx", "a.txt", "corrupt.docx"}

\* the content blocks of a HumanMessage
BlockKinds ==
    {"text", "word_docx", "word_bad_base64", "word_not_docx", "pdf",
     "other_file", "image"}

BlockLists == SeqsUpTo(BlockKinds, MaxBlocks)

\* tempfile.NamedTemporaryFile(delete=False)
CreateTemp(tmp, name) == tmp \cup {name}

\* Path.unlink(missing_ok=True)
Unlink(tmp, name) == tmp \ {name}

\* parse_word_document: the returned text and the temporary files left
parse_word_document(file_path, base64_data, writeFails) ==
    IF base64_data # "None"
    THEN IF base64_data = "bad_base64"
         THEN [result |-> "error_decode", tmp |-> {}]
         ELSE LET created == CreateTemp({}, "word_1")
              IN IF writeFails
                 THEN [result |-> "error_decode",
                       tmp |-> Unlink(created, "word_1")]
                 ELSE IF base64_data = "not_docx"
                 THEN [result |-> "error_parse",
                       tmp |-> Unlink(created, "word_1")]
                 ELSE [result |-> "success",
                       tmp |-> Unlink(created, "word_1")]
    ELSE CASE file_path = "" -> [result |-> "error_no_input", tmp |-> {}]
           [] file_path = "missing.docx"
                  -> [result |-> "error_missing", tmp |-> {}]
           [] file_path = "a.txt" -> [result |-> "error_format", tmp |-> {}]
           [] file_path = "corrupt.docx"
                  -> [result |-> "error_parse", tmp |-> {}]
           [] OTHER -> [result |-> "success", tmp |-> {}]

\* lines 36-110 for one content block: the text part and the files left
ConvertBlock(kind, name, tmp, writeFails) ==
    CASE kind = "word_bad_base64" -> [part |-> "error", tmp |-> tmp]
      [] kind = "word_not_docx"
             -> [part |-> "error", tmp |-> CreateTemp(tmp, name)]
      [] kind = "word_docx"
             -> IF writeFails
                THEN [part |-> "error", tmp |-> CreateTemp(tmp, name)]
                ELSE [part |-> "word_content",
                      tmp |-> Unlink(CreateTemp(tmp, name), name)]
      [] kind = "other_file" -> [part |-> "none", tmp |-> tmp]
      [] OTHER -> [part |-> kind, tmp |-> tmp]

RECURSIVE ConvertBlocks(_, _, _, _)
\* the loop over message.content, from block i on
ConvertBlocks(blocks, i, tmp, writeFails) ==
    IF i > Len(blocks) THEN [parts |-> <<>>, tmp |-> tmp]
    ELSE LET one  == ConvertBlock(blocks[i], i, tmp, writeFails)
             rest == ConvertBlocks(blocks, i + 1, one.tmp, writeFails)
         IN [parts |-> IF one.part = "none" THEN rest.parts
                       ELSE <<one.part>> \o rest.parts,
             tmp |-> rest.tmp]

WordFrame == UNCHANGED <<loopVars, conc, sql, dl, threads, sse, excel,
        gstate, cli, wrapper>>

\* parse_word_document
ParseWordDocument ==
    /\ word.pc = "called"
    /\ word.fn = "parse_word_document"
    /\ LET r == parse_word_document(word.file_path, word.base64_data,
                                    word.writeFails)
       IN word' = [word EXCEPT !.pc = "returned", !.result = <<r.result>>,
                               !.tmp = r.tmp]
    /\ WordFrame

\* convert_file_messages_to_text on one HumanMessage with a list content
ConvertFileMessagesToText ==
    /\ word.pc = "called"
    /\ word.fn = "convert_file_messages_to_text"
    /\ LET r == ConvertBlocks(word.blocks, 1, {}, word.writeFails)
       IN word' = [word EXCEPT !.pc = "returned", !.result = r.parts,
                               !.tmp = r.tmp]
    /\ WordFrame

WordInit ==
    /\ LoopInit("handle_input")
    /\ gstate = Idle
    /\ cli = Idle
    /\ wrapper = Idle
    /\ word \in
         {[pc |-> "called", fn |-> "parse_word_document", file_path |-> f,
           base64_data |-> b, blocks |-> <<>>, writeFails |-> w,
           result |-> <<>>, tmp |-> {}] :
           f \in FilePaths, b \in Base64Datas, w \in BOOLEAN}
         \cup
         {[pc |-> "called", fn |-> "convert_file_messages_to_text",
           file_path |-> "", base64_data |-> "None", blocks |-> bs,
           writeFails |-> w, result |-> <<>>, tmp |-> {}] :
           bs \in BlockLists, w \in BOOLEAN}
    /\ conc = Idle
    /\ sql = Idle
    /\ dl = Idle
    /\ threads = Idle
    /\ sse = Idle
    /\ excel = Idle

WordNext ==
    \/ ParseWordDocument
    \/ ConvertFileMessagesToText

WordSpec == WordInit /\ [][WordNext]_vars


(* ====================================================================== *)
(* The two tools over _global_state: save_test_cases and get_test_cases    *)
(* (test_case_simple_agent.py lines 33-83).  A JSON text is the value it   *)
(* denotes together with how it is written.                                *)
(* ====================================================================== *)

\* the elements of a JSON array: two objects and a number
JsonItems == {[test_case_id |-> "TC_001"], [test_case_id |-> "TC_002"],
              [scalar |-> 1]}

\* the JSON values the agent may send: arrays, an object, a number, null
JsonValues ==
    {JsonList(xs) : xs \in SeqsUpTo(JsonItems, MaxCases)}
    \cup {[test_case_id |-> "TC_001"], [scalar |-> 1], None}

\* the ways the same value is written: as json.dumps writes it, or with
\* other white space and \u escapes
JsonLayouts == {"dumps", "other"}

JsonTexts ==
    {[valid |-> TRUE, value |-> v, layout |-> l] :
        v \in JsonValues, l \in JsonLayouts}
    \cup {[valid |-> FALSE, value |-> None, layout |-> l] :
             l \in JsonLayouts}

\* json.loads: the value, or the JSONDecodeError
json_loads(text) ==
    IF text.valid THEN [raises |-> FALSE, value |-> text.value]
    ELSE [raises |-> TRUE, value |-> None]

\* json.dumps(value, ensure_ascii=False)
json_dumps(value) == [valid |-> TRUE, value |-> value, layout |-> "dumps"]

\* no text: nothing sent or returned yet
NoText == [valid |-> FALSE, value |-> None, layout |-> "none"]

\* a state dict without the key "test_cases"
NoTestCasesKey == [absent |-> TRUE]

\* lines 60-65 with the object stored unwrapped
StoredAsGiven(data) == data

\* lines 60-65: the list stored for the loaded data
StoredFor(data) ==
    IF "list" \in DOMAIN data THEN data ELSE JsonList(<<data>>)

ToolFrame == UNCHANGED <<loopVars, conc, sql, dl, threads, sse, excel, word,
                         cli, wrapper>>

\* save_test_cases(test_cases_json)
SaveTestCasesTool(text) ==
    /\ LET loaded == json_loads(text)
       IN gstate' =
            IF loaded.raises
            THEN [gstate EXCEPT !.before = gstate.test_cases,
                               !.saved = text,
                               !.result = "save_failed",
                               !.got = NoText]
            ELSE [gstate EXCEPT !.before = gstate.test_cases,
                               !.test_cases = StoredFor(loaded.value),
                               !.saved = text,
                               !.result = "saved",
                               !.got = NoText]
    /\ ToolFrame

\* get_test_cases()
GetTestCasesTool ==
    /\ gstate' = [gstate EXCEPT
                    !.got = json_dumps(IF gstate.test_cases = NoTestCasesKey
                                       THEN JsonList(<<>>)
                                       ELSE gstate.test_cases)]
    /\ ToolFrame

ToolInit ==
    /\ LoopInit("handle_input")
    /\ gstate = [test_cases |-> NoTestCasesKey, before |-> NoTestCasesKey,
                saved |-> NoText, result |-> "none", got |-> NoText]
    /\ conc = Idle
    /\ sql = Idle
    /\ dl = Idle
    /\ threads = Idle
    /\ sse = Idle
    /\ excel = Idle
    /\ word = Idle
    /\ cli = Idle
    /\ wrapper = Idle

ToolNext ==
    \/ \E text \in JsonTexts : SaveTestCasesTool(text)
    \/ GetTestCasesTool

ToolSpec == ToolInit /\ [][ToolNext]_vars


(* ====================================================================== *)
(* The SQL agent's command-line flow (agent/sql_agent.py, __main__): one   *)
(* agent.stream, and after an interrupt the confirmation dialogue and a    *)
(* second agent.stream.                                                    *)
(* ====================================================================== *)

\* the tools of the SQL agent (line 56)
SqlAgentTools ==
    {"sql_db_list_tables", "sql_db_schema", "sql_db_query",
     "sql_db_query_checker"}

\* interrupt_on of the HumanInTheLoopMiddleware: the allowed decisions
AllowedDecisions(tool) ==
    IF tool = "sql_db_query" THEN {"approve", "reject", "edit"}
    ELSE {"approve", "reject"}

\* create_agent is given no checkpointer (lines 54-59)
CliCheckpointer == "none"

NoRequest == [name |-> "none", sql |-> <<>>]

\* the tool call the model asks for: a name and, for the two SQL tools, the
\* statement
ToolRequests ==
    {[name |-> n, sql |-> <<>>] : n \in {"sql_db_list_tables", "sql_db_schema"}}
    \cup {[name |-> n, sql |-> t] :
             n \in {"sql_db_query", "sql_db_query_checker"}, t \in SqlTexts}

\* get_user_decision returns one of the three words (lines 62-75)
UserDecisions == {"approve", "reject", "edit"}

EditedSqls == {<<"select", " ", "x">>, <<"drop">>}

NoCommand == [kind |-> "empty", type |-> "none", action |-> NoRequest]

\* lines 136-158: the Command built from the decision
DecisionCommand(decision, request, edited, interruptValue) ==
    CASE decision = "approve" ->
             [kind |-> "Command", type |-> "approve", action |-> NoRequest]
      [] decision = "edit" /\ interruptValue # "None" ->
             [kind |-> "Command", type |-> "edit",
              action |-> [name |-> request.name, sql |-> edited]]
      [] OTHER ->
             [kind |-> "Command", type |-> "reject", action |-> NoRequest]

\* line 162: what the second agent.stream is given as its input
ResumeInput(command) == NoCommand

\* the agent on its second stream call: the tool calls it executes. An
\* input that is no Command resumes nothing (an empty dict is refused as
\* empty input); a decision the middleware does not allow is refused
AgentResumes(request, input) ==
    IF input.kind # "Command" THEN [raises |-> TRUE, executed |-> <<>>]
    ELSE IF input.type \notin AllowedDecisions(request.name)
    THEN [raises |-> TRUE, executed |-> <<>>]
    ELSE [raises |-> FALSE,
          executed |-> CASE input.type = "approve" -> <<request>>
                         [] input.type = "edit" -> <<input.action>>
                         [] OTHER -> <<>>]

CliFrame == UNCHANGED <<loopVars, conc, sql, dl, threads, sse, excel, word,
                        gstate, wrapper>>

\* lines 94-109: the first agent.stream; every tool call of the model is
\* interrupted by the middleware
CliStream(request) ==
    /\ cli.pc = "stream"
    /\ cli' = IF request = NoRequest
              THEN [cli EXCEPT !.pc = "ended"]
              ELSE [cli EXCEPT !.pc = "interrupted", !.request = request]
    /\ CliFrame

\* lines 112-177: agent.get_state, the dialogue, the Command, the second
\* agent.stream
CliConfirm(decision, edited, interruptValue) ==
    /\ cli.pc = "interrupted"
    /\ IF CliCheckpointer = "none"
       THEN cli' = [cli EXCEPT !.pc = "raised"]
       ELSE LET command == DecisionCommand(decision, cli.request, edited,
                                           interruptValue)
                input   == ResumeInput(command)
                resumed == AgentResumes(cli.request, input)
            IN cli' = [cli EXCEPT
                          !.pc = IF resumed.raises THEN "raised"
                                 ELSE "ended",
                          !.asked = TRUE,
                          !.decision = decision,
                          !.edited = IF decision = "edit" THEN edited
                                     ELSE <<>>,
                          !.command = command,
                          !.input = input,
                          !.executed = resumed.executed]
    /\ CliFrame

CliInit ==
    /\ LoopInit("handle_input")
    /\ cli = [pc |-> "stream", request |-> NoRequest, asked |-> FALSE,
              decision |-> "none", edited |-> <<>>, command |-> NoCommand,
              input |-> NoCommand, executed |-> <<>>]
    /\ conc = Idle
    /\ sql = Idle
    /\ dl = Idle
    /\ threads = Idle
    /\ sse = Idle
    /\ excel = Idle
    /\ word = Idle
    /\ gstate = Idle
    /\ wrapper = Idle

CliNext ==
    \/ \E request \in ToolRequests \cup {NoRequest} : CliStream(request)
    \/ \E decision \in UserDecisions, edited \in EditedSqls,
          interruptValue \in {"None", "HITLRequest"} :
          CliConfirm(decision, edited, interruptValue)

CliSpec == CliInit /\ [][CliNext]_vars


(* ====================================================================== *)
(* FileMessageConverterLLM (source/agent/llm_wrapper.py) and               *)
(* convert_file_messages_to_text (utils/message_converter.py).  The base   *)
(* model is the environment; the model records what it receives.           *)
(* ====================================================================== *)

\* most content blocks of a message
MaxContentBlocks == 2

\* most messages of one call
MaxCallMsgs == 1

\* file content blocks: a Word document that parses, one that does not, a
\* PDF, and a file of another mime type
FileBlocks == {"file_word", "file_word_bad", "file_pdf", "file_other"}

\* the content blocks: text, file, image, and a dict of another type
ContentBlocks == {"text", "image", "other"} \cup FileBlocks

StrContent == [list |-> FALSE, blocks |-> <<>>, text |-> <<"text">>]

ListContent(blocks) == [list |-> TRUE, blocks |-> blocks, text |-> <<>>]

CallMessages ==
    {[type |-> "human", content |-> StrContent],
     [type |-> "ai", content |-> StrContent]}
    \cup {[type |-> "human", content |-> ListContent(bs)] :
            bs \in SeqsUpTo(ContentBlocks, MaxContentBlocks)}

RECURSIVE TextParts(_)
\* text_parts after the loop over the content blocks (lines 36-110)
TextParts(blocks) ==
    IF blocks = <<>> THEN <<>>
    ELSE LET block == Head(blocks)
             rest  == TextParts(Tail(blocks))
         IN CASE block = "text" -> <<"text">> \o rest
              [] block = "file_word" -> <<"[Word document content]">> \o rest
              [] block = "file_word_bad"
                     -> <<"[error: cannot parse Word document]">> \o rest
              [] block = "file_pdf" -> <<"[hint: PDF file]">> \o rest
              [] block = "image" -> <<"[hint: image file]">> \o rest
              [] OTHER -> rest

\* one pass of the loop over messages (lines 29-132)
ConvertMessage(message) ==
    IF message.type = "human" /\ message.content.list
    THEN LET file_info ==
                 SelectSeq(message.content.blocks,
                           LAMBDA block : block = "file_other")
             text_parts ==
                 TextParts(message.content.blocks)
                 \o (IF file_info # <<>> THEN <<"[uploaded files]">>
                     ELSE <<>>)
         IN IF text_parts # <<>>
            THEN [type |-> "human",
                  content |-> [list |-> FALSE, blocks |-> <<>>,
                               text |-> text_parts]]
            ELSE message
    ELSE message

convert_file_messages_to_text(msgs) ==
    [i \in 1..Len(msgs) |-> ConvertMessage(msgs[i])]

\* the methods of the wrapper that call the base model
WrapperMethods == {"_generate", "_agenerate", "_stream", "_astream"}

\* what the base model receives from a method of the wrapper
WrapperCall(method, msgs) == convert_file_messages_to_text(msgs)

\* what the wrapper's bind_tools and with_structured_output return
bind_tools == "base_model.bind_tools"

with_structured_output == "base_model.with_structured_output"

WrapperFrame == UNCHANGED <<loopVars, conc, sql, dl, threads, sse, excel,
        word, gstate, cli>>

\* generate, agenerate, stream or astream through the wrapper
WrapperInvoke(method, msgs) ==
    /\ wrapper.model = "wrapper"
    /\ wrapper' = [wrapper EXCEPT
                      !.method = method,
                      !.messages = msgs,
                      !.received = WrapperCall(method, msgs)]
    /\ WrapperFrame

\* llm.bind_tools(tools)
WrapperBindTools ==
    /\ wrapper.model = "wrapper"
    /\ wrapper' = [wrapper EXCEPT !.model = bind_tools]
    /\ WrapperFrame

\* llm.with_structured_output(schema)
WrapperWithStructuredOutput ==
    /\ wrapper.model = "wrapper"
    /\ wrapper' = [wrapper EXCEPT !.model = with_structured_output]
    /\ WrapperFrame

\* a call of the model that bind_tools or with_structured_output returned
BoundInvoke(msgs) ==
    /\ wrapper.model # "wrapper"
    /\ wrapper' = [wrapper EXCEPT
                      !.method = "invoke",
                      !.messages = msgs,
                      !.received = msgs]
    /\ WrapperFrame

WrapperInit ==
    /\ LoopInit("handle_input")
    /\ wrapper = [model |-> "wrapper", method |-> "none",
                  messages |-> <<>>, received |-> <<>>]
    /\ conc = Idle
    /\ sql = Idle
    /\ dl = Idle
    /\ threads = Idle
    /\ sse = Idle
    /\ excel = Idle
    /\ word = Idle
    /\ gstate = Idle
    /\ cli = Idle

WrapperNext ==
    \/ \E method \in WrapperMethods,
          msgs \in SeqsUpTo(CallMessages, MaxCallMsgs) :
          WrapperInvoke(method, msgs)
    \/ WrapperBindTools
    \/ WrapperWithStructuredOutput
    \/ \E msgs \in SeqsUpTo(CallMessages, MaxCallMsgs) :
          BoundInvoke(msgs)

WrapperSpec == WrapperInit /\ [][WrapperNext]_vars


(* ============================== properties ============================ *)

\* the stored review result counts as passed for the router
Passed == review_result # None /\ Get(review_result, "is_passed", FALSE) = TRUE

\* the supervisor is about to route after a review step
RoutingAfterReview == pc = SUPERVISOR /\ current_agent = REVIEW

\* C1: when the supervisor routes after a review step, the next step is the
\* export step if the review passed or iteration_count >= 3, and the
\* generation step otherwise.
C1_RouteAfterReview ==
    [][RoutingAfterReview =>
          pc' = IF Passed \/ iteration_count >= MaxIterations
                THEN EXPORT ELSE GEN]_vars

\* the export step is about to run after three failed reviews
C1_Witness ==
    /\ pc = EXPORT
    /\ current_agent = REVIEW
    /\ iteration_count >= MaxIterations
    /\ ~Passed

\* C2: every run from the fresh initial state eventually executes the export
\* step and reaches END, whatever the LLM calls do.
C2_Terminates == <>(pc = END /\ exportCount = 1)

\* C3: the steps run in the order GENERATE, REVIEW, then EXPORT or GENERATE:
\* generation is first, review only follows generation, export only follows
\* review, export runs at most once, and nothing runs after export.
C3_StepOrder ==
    /\ (lastNode = "" => pc \in {SUPERVISOR, GEN})
    /\ (pc = GEN => lastNode \in {"", REVIEW})
    /\ (pc = REVIEW => lastNode = GEN)
    /\ (pc = EXPORT => lastNode = REVIEW)
    /\ exportCount <= 1
    /\ (lastNode = EXPORT => pc = END)

\* the run has ended after a second generation attempt and an export step
\* that raised (so current_agent was never set to test_case_generator)
C3_Witness ==
    /\ pc = END
    /\ lastNode = EXPORT
    /\ exportCount = 1
    /\ genCount = 2
    /\ current_agent = REVIEW

\* C4: the generation step executes at most 3 times in any run.
C4_BoundedRetries == genCount <= MaxIterations

\* C5: iteration_count is incremented exactly once per generation attempt,
\* so whenever a generation or export step starts it equals the number of
\* generation steps executed so far.
C5_CountsGenerations ==
    pc \in {GEN, EXPORT} => iteration_count = genCount

\* C6: after a review step a stored score >= 80 always routes to export, and
\* a score < 80 with iteration_count < 3 always routes back to generation.
C6_ScoreRoutes ==
    [][RoutingAfterReview =>
          /\ (review_result.score >= Threshold => pc' = EXPORT)
          /\ (review_result.score < Threshold
                /\ iteration_count < MaxIterations => pc' = GEN)]_vars

\* C7: when generation starts after a failed review, the
\* optimization_suggestions it reads equal the suggestions of the stored
\* review_result.
C7_CarriesSuggestions ==
    (pc = GEN /\ lastNode = REVIEW) =>
        optimization_suggestions = Get(review_result, "suggestions", <<>>)

\* C8: test_cases is non-empty whenever the export step executes.
C8_ExportNonEmpty == pc = EXPORT => test_cases # <<>>

\* the export step is about to run on the placeholder test case that the
\* generation step stored because nothing else was there
C8_Witness ==
    /\ pc = EXPORT
    /\ Len(test_cases) = 1
    /\ test_cases[1].origin = "default"

\* C9: every stored review_result has is_passed = true iff score >= 80.
C9_PassedIffScore ==
    review_result # None =>
        (Get(review_result, "is_passed", FALSE) = TRUE
            <=> review_result.score >= Threshold)

\* C10: the score of every stored review_result is the unweighted mean of
\* its three sub-scores.
C10_ScoreIsMean ==
    review_result # None =>
        3 * review_result.score =
            review_result.coverage_score
            + review_result.executability_score
            + review_result.clarity_score

\* C11: after a generation step that follows a failed review, test_cases
\* holds only test cases produced by that generation attempt.
C11_ReplacedWholesale ==
    (pc = SUPERVISOR /\ lastNode = GEN /\ genCount >= 2) =>
        \A i \in 1..Len(test_cases) : test_cases[i].attempt = genCount

\* C13: in a run started with only the user's message in the state, the
\* generation prompt contains the requirement text of that message.
C13_PromptHasRequirement ==
    (entry = "handle_input" /\ genCount > 0) =>
        prompt_requirement = UserRequirement

\* C14: a generation or review step whose LLM call raises still returns to
\* the supervisor with current_agent set to itself, with test_cases non-empty
\* (generation) or a not-passed review_result (review), and with a message
\* reporting the failure appended.
C14_ExceptionsCaught ==
    [][/\ (pc = GEN /\ lastGen' = "raised") =>
            /\ pc' = SUPERVISOR
            /\ current_agent' = GEN
            /\ test_cases' # <<>>
            /\ messages'[Len(messages')] = "generation_failed"
       /\ (pc = REVIEW /\ lastReview' = "raise") =>
            /\ pc' = SUPERVISOR
            /\ current_agent' = REVIEW
            /\ review_result' # None
            /\ Get(review_result', "is_passed", FALSE) = FALSE
            /\ messages'[Len(messages')] = "review_failed"]_vars

\* a review call raised on test cases left by a generation call that raised
C14_Witness ==
    /\ pc = SUPERVISOR
    /\ lastNode = REVIEW
    /\ lastGen = "raised"
    /\ lastReview = "raise"

\* C12: under every interleaving of two conversations, the test cases a
\* conversation reviews and exports after its generation step are its own,
\* and its get_test_cases call returns only its own.
C12_ScopedToConversation ==
    \A c \in Convs :
        /\ (conc.st[c].pc \in {"review_enter", "review_llm", "export", "done"}
              => \A i \in 1..Len(conc.st[c].tcs) : conc.st[c].tcs[i].owner = c)
        /\ \A i \in 1..Len(conc.st[c].seen) : conc.st[c].seen[i].owner = c

\* the keywords the SQL tool must refuse
Denylist ==
    {"DROP", "DELETE", "UPDATE", "INSERT", "ALTER", "CREATE", "TRUNCATE"}

\* the text, trimmed and upper-cased, does not begin with SELECT or contains
\* a denylisted keyword
Refusable(text) ==
    LET upper == SqlUpper(Strip(text))
    IN \/ upper = <<>>
       \/ upper[1] # "SELECT"
       \/ \E i \in 1..Len(upper), k \in Denylist : k \in KeywordsOf(upper[i])

SqlErrors ==
    {"error_no_sql", "error_empty", "error_not_select", "error_dangerous"}

\* C15: for a statement that does not begin with SELECT or contains a
\* denylisted keyword, the query tool and the checker tool return an error
\* and send nothing to the database.
C15_ReadOnly ==
    (sql.tool # "none" /\ Refusable(sql.text)) =>
        (sql.result \in SqlErrors /\ sql.sent = <<>>)

\* the query tool refused a SELECT that contains DROP
C15_Witness ==
    /\ sql.tool = "sql_db_query"
    /\ Strip(sql.text) = <<"select", " ", "drop">>
    /\ sql.result = "error_dangerous"
    /\ sql.sent = <<>>

\* C16: a decoded name with "..", "/" or "\" gets 400 before the file system
\* is consulted, a name that does not exist gets 404, a file is returned only
\* from inside the downloads directory, and no 400 or 404 becomes a 500.
C16_NoTraversal ==
    dl.status # 0 =>
        LET decoded == unquote(dl.filename)
            traversal ==
                \/ \E i \in 1..Len(decoded) : decoded[i] \in {"/", "\\"}
                \/ \E i \in 1..(Len(decoded) - 1) :
                       decoded[i] = "." /\ decoded[i + 1] = "."
        IN /\ traversal => (dl.status = 400 /\ ~dl.consulted)
           /\ (~traversal /\ ~dl.fsError /\ ~Exists(decoded, dl.link))
                  => dl.status = 404
           /\ dl.status = 200 => dl.served = "inside"
           /\ dl.status = 500 => (dl.fsError /\ ~traversal)

\* an encoded ".." was refused without touching the file system
C16_Witness ==
    /\ dl.filename = <<"%2e", "%2e", "a.xlsx">>
    /\ dl.status = 400
    /\ ~dl.consulted

RECURSIVE Exchanges(_)
\* the messages of the exchanges completed on a thread, in order
Exchanges(sent) ==
    IF sent = <<>> THEN <<>>
    ELSE Exchange(Head(sent)) \o Exchanges(Tail(sent))

\* C17: /history for a thread returns the messages of the exchanges completed
\* on that thread, and of no other thread.
C17_ThreadScopedHistory ==
    threads.history.thread # "none" =>
        threads.history.messages =
            Exchanges(threads.sent[threads.history.thread])

\* C18: a /stream response that has ended, normally, after an exception in
\* the agent's stream or after an exception in handle_input, has "[DONE]" as
\* its last event and nowhere else; after an exception in the agent's stream
\* an error event comes right before it.
C18_EndsWithDone ==
    sse.pc \in {"closed", "raised"} =>
        /\ sse.out # <<>>
        /\ sse.out[Len(sse.out)] = DoneEvent
        /\ \A i \in 1..(Len(sse.out) - 1) : sse.out[i] # DoneEvent
        /\ sse.failed =>
               (/\ Len(sse.out) >= 2
                /\ sse.out[Len(sse.out) - 1].type = "error")

\* C19: with an empty test-case list or invalid test-case JSON the exporter
\* returns an error string, raises nothing and writes nothing; a review
\* result that cannot be parsed does not make an export fail.
C19_FailsAsValue ==
    excel.pc = "returned" =>
        /\ (\/ excel.test_cases_json.kind = "not_json"
            \/ excel.test_cases_json = [kind |-> "list", items |-> <<>>])
               => (/\ excel.result \in {"error_empty", "error_failed"}
                   /\ ~excel.raised
                   /\ excel.files = {}
                   /\ ~excel.mkdir)
        /\ (/\ excel.review_result_json = "not_json"
            /\ excel.test_cases_json.kind = "list"
            /\ excel.test_cases_json.items # <<>>
            /\ \A i \in 1..Len(excel.test_cases_json.items) :
                   excel.test_cases_json.items[i] = "dict"
            /\ excel.fs = "ok")
               => (/\ excel.result = "success"
                   /\ excel.files = {excel.output_path})

\* invalid test-case JSON came back as an error string
C19_Witness ==
    /\ excel.pc = "returned"
    /\ excel.test_cases_json.kind = "not_json"
    /\ excel.result = "error_failed"
    /\ ~excel.raised

\* C20: when parse_word_document or convert_file_messages_to_text has
\* returned, no temporary file it created exists any more.
C20_NoTempFileLeft ==
    word.pc = "returned" => word.tmp = {}

\* C21: the review step and the export step leave test_cases as they found
\* it, and the export step also leaves review_result and iteration_count.
C21_StoredTestCasesKept ==
    [][/\ (pc \in {REVIEW, EXPORT}) => test_cases' = test_cases
       /\ (pc = EXPORT) =>
              (/\ review_result' = review_result
               /\ iteration_count' = iteration_count)]_vars

\* a run whose test cases went through a parsed review and the export
C21_Witness ==
    /\ pc = END
    /\ exportCount = 1
    /\ lastReview = "json"
    /\ final_output = "document"
    /\ test_cases # <<>>

\* C22: get_test_cases after a successful save_test_cases returns the saved
\* array (a saved object as a one-element array); a save_test_cases call
\* with invalid JSON reports failure and leaves the stored test cases alone.
C22_SaveGetRoundTrip ==
    /\ (gstate.result = "saved" /\ gstate.got # NoText) =>
           LET sent == json_loads(gstate.saved).value
               back == json_loads(gstate.got)
           IN /\ ~back.raises
              /\ ("list" \in DOMAIN sent) => back.value = sent
              /\ ("test_case_id" \in DOMAIN sent) =>
                     back.value = JsonList(<<sent>>)
    /\ (gstate.saved # NoText /\ ~gstate.saved.valid) =>
           (gstate.result = "save_failed"
            /\ gstate.test_cases = gstate.before)

\* an array written the agent's way was saved and read back
C22_Witness ==
    /\ gstate.result = "saved"
    /\ gstate.saved.layout = "other"
    /\ gstate.saved.value =
           JsonList(<<[test_case_id |-> "TC_001"],
                      [test_case_id |-> "TC_002"]>>)
    /\ gstate.got # NoText

\* C23 as stated: after a review whose LLM call raised, returned no JSON
\* object, invalid JSON or a JSON object without is_passed, the supervisor
\* routes to export only with a result that is not passed and with
\* iteration_count >= 3.
C23_FailedReviewNotPassed ==
    [][(/\ RoutingAfterReview
        /\ lastReview \in {"raise", "no_json", "invalid_json",
                           "json_without_is_passed", "json_without_score"}
        /\ pc' = EXPORT)
          => (~Passed /\ iteration_count >= MaxIterations)]_vars

\* C23 as amended: the same for a review whose LLM call raised, returned no
\* JSON object, invalid JSON or a JSON object with score and no is_passed.
C23_FailedReviewNotPassedAmended ==
    [][(/\ RoutingAfterReview
        /\ lastReview \in {"raise", "no_json", "invalid_json",
                           "json_without_is_passed"}
        /\ pc' = EXPORT)
          => (~Passed /\ iteration_count >= MaxIterations)]_vars

\* export is about to run after a review without is_passed, on the count
C23_Witness ==
    /\ pc = EXPORT
    /\ lastNode = REVIEW
    /\ lastReview = "json_without_is_passed"
    /\ ~Passed
    /\ iteration_count >= MaxIterations

\* the review answers from which a result is parsed
ParsedKinds == {"json", "json_without_is_passed", "json_without_score"}

\* C24: iteration_count stays within 0..3 and never decreases; only the
\* review step changes it, by exactly +1, and only when it stores a parsed
\* review result that is not passed.
C24_IterationCount ==
    [][/\ iteration_count \in 0..MaxIterations
       /\ iteration_count' \in 0..MaxIterations
       /\ iteration_count' >= iteration_count
       /\ (iteration_count' # iteration_count) =>
              (/\ pc = REVIEW
               /\ iteration_count' = iteration_count + 1
               /\ lastReview' \in ParsedKinds
               /\ review_result' # None
               /\ review_result' # DefaultReview("review_error")
               /\ ~Get(review_result', "is_passed", FALSE))]_vars

\* the third parsed review that did not pass has been counted
C24_Witness ==
    /\ pc = SUPERVISOR
    /\ lastNode = REVIEW
    /\ lastReview = "json"
    /\ iteration_count = MaxIterations
    /\ ~Passed

\* C25: a review step that reviewed test cases leaves in review_result the
\* result parsed from its own output or, when nothing was parsed, the
\* default failure result.
C25_ReviewResultIsCurrent ==
    [][(pc = REVIEW /\ lastReview' # "skipped") =>
          IF lastReview' \in ParsedKinds
          THEN review_result' # None
          ELSE review_result' \in {DefaultReview("review_error"),
                                   DefaultReview("review_error_exception")}
      ]_vars

\* C26: on the same SQL text the checks of validate_sql and of execute_query
\* agree: the checker tool refuses it on policy grounds exactly when the
\* query tool does.
C26_SamePolicy ==
    (sql.checked # "none" /\ sql.queried # "none") =>
        (sql.checked \in SqlErrors <=> sql.queried \in SqlErrors)

\* a SELECT was accepted by the checker and then by the query tool
C26_Witness ==
    /\ sql.text = <<" ", "select", "x">>
    /\ sql.checked = "validated"
    /\ sql.queried = "executed"

\* C27: no database tool call runs without the user's decision, and once
\* the command-line flow is over after an interrupt the user has been
\* asked and the agent has been resumed with that decision: nothing ran
\* after reject, the requested call after approve, the call with the
\* user's SQL after edit.
C27_ResumedWithDecision ==
    /\ (cli.executed # <<>>) => cli.asked
    /\ (cli.pc \in {"ended", "raised"} /\ cli.request # NoRequest) =>
           (/\ cli.asked
            /\ cli.input.kind = "Command"
            /\ cli.input.type = cli.decision
            /\ cli.decision = "reject" => cli.executed = <<>>
            /\ cli.decision = "approve" => cli.executed = <<cli.request>>
            /\ cli.decision = "edit" =>
                   cli.executed = <<[name |-> cli.request.name,
                                     sql |-> cli.edited]>>)

\* C28: handle_input resumes an interrupted thread and otherwise starts a new
\* turn: when the thread's state has a task with pending interrupts the agent
\* input is Command(resume=user_input.resume) and carries no HumanMessage;
\* when it has none, or aget_state raises "No checkpointer set", the input is
\* exactly one HumanMessage with the user's content; the thread id is the
\* given one, or a fresh uuid when the request has none.
C28_ResumeOrNewTurn ==
    sse.pc \in {"astream", "closed"} =>
        LET interrupted ==
                /\ sse.state.raises = "none"
                /\ \E i \in 1..Len(sse.state.tasks) :
                       sse.state.tasks[i] = "pending"
        IN /\ interrupted =>
                  /\ sse.input.kind = "Command"
                  /\ sse.input.resume = sse.user_input.resume
                  /\ sse.input.messages = <<>>
           /\ ~interrupted =>
                  /\ sse.input.kind = "messages"
                  /\ sse.input.messages =
                         <<[type |-> "human",
                            content |-> sse.user_input.content]>>
           /\ sse.thread = IF sse.user_input.thread_id = "None"
                           THEN "uuid4" ELSE sse.user_input.thread_id

C28_Witness ==
    /\ sse.pc = "astream"
    /\ sse.state.raises = "none"
    /\ sse.state.tasks = <<"clear", "pending">>
    /\ sse.input.kind = "Command"
    /\ sse.user_input.thread_id = "None"
    /\ sse.thread = "uuid4"

\* the events a step of the stream appended
NewEvents == SubSeq(sse'.out, Len(sse.out) + 1, Len(sse'.out))

\* C29: a message of an update that cannot be converted does not end the
\* stream: each such message yields exactly one error event where it stood,
\* the messages after it are emitted in their original order (all but the
\* re-sent input HumanMessage, which the generator drops from every
\* response), and the stream goes on to the following updates.
C29_ErrorDoesNotEndStream ==
    [][(sse.pc = "astream" /\ sse'.n = sse.n + 1
            /\ sse'.last.mode = "updates")
        => LET payload == sse'.last.payload
               errors == SelectSeq(NewEvents, LAMBDA e : e.type = "error")
               sent   == SelectSeq(NewEvents, LAMBDA e : e.type # "error")
               wanted == SelectSeq(payload,
                           LAMBDA m : m \notin {"unsupported", "human_input"})
           IN /\ Len(errors) =
                    Len(SelectSeq(payload, LAMBDA m : m = "unsupported"))
              /\ Len(sent) = Len(wanted)
              /\ \A i \in 1..Len(sent) :
                     sent[i] = [type |-> "message", content |-> wanted[i]]
              /\ \A i \in 1..Len(payload) :
                     payload[i] = "unsupported" =>
                        \* the error event stands where the message stood
                        NewEvents[Len(SelectSeq(SubSeq(payload, 1, i),
                                     LAMBDA m : m # "human_input"))].type
                            = "error"
              /\ sse'.pc = "astream"]_vars

C29_Witness ==
    /\ sse.pc = "astream"
    /\ sse.n = 2
    /\ sse.last.mode = "updates"
    /\ Len(sse.out) >= 3
    /\ sse.out[1].type = "error"
    /\ sse.out[2] = [type |-> "message", content |-> "ai"]
    /\ sse.out[Len(sse.out)].type = "message"

\* C30: on every way of invoking the model through the wrapper (generate,
\* agenerate, stream, astream, and a model obtained from bind_tools or
\* with_structured_output) the base model never receives a HumanMessage
\* that still contains a file content block.
C30_NoFileBlockReachesBaseModel ==
    \A i \in 1..Len(wrapper.received) :
        wrapper.received[i].type = "human" =>
            \A j \in 1..Len(wrapper.received[i].content.blocks) :
                wrapper.received[i].content.blocks[j] \notin FileBlocks
====
